---- MODULE Spec2Model ----
(***************************************************************************)
(* Knight's tour solver of src/main.py: class Board (constructor, solve,  *)
(* _solve_knight_tour, _is_valid) and class Knight (offsets, position).   *)
(* The recursion of _solve_knight_tour is an explicit stack of frames;    *)
(* every assignment of the marking and unmarking sequences is one step.   *)
(***************************************************************************)
EXTENDS Integers, Sequences, FiniteSets, TLC

\* Largest board size built by the caller.
MaxN == 5
\* Number of times the caller invokes solve() on one Board.
MaxCalls == 2
\* The board size of the program's entry point and the default of Board.
DefaultN == 8

VARIABLES
    n,          \* Board.n
    mainpc,     \* the caller: "new", "idle", "solving", "raised"
    exc,        \* the exception that ended the program, or "none"
    solution,   \* Board.solution
    move_path,  \* Board.move_path
    visits,     \* Board.visits
    position,   \* Knight._position
    stack,      \* the frames of _solve_knight_tour, innermost last
    retval,     \* the value the last finished call returned
    outcomes    \* what each finished solve() returned, and the grid it left

vars == <<n, mainpc, exc, solution, move_path, visits, position, stack,
          retval, outcomes>>

UNVISITED == -1

\* Knight.offsets
offsets_wrong == << <<2, 1>>, <<1, 2>>, <<-1, 2>>, <<-2, 1>>,
                    <<-2, -1>>, <<-1, -2>>, <<1, -2>>, <<2, -2>> >>

offsets == << <<2, 1>>, <<1, 2>>, <<-1, 2>>, <<-2, 1>>,
              <<-2, -1>>, <<-1, -2>>, <<1, -2>>, <<2, -1>> >>

NumOffsets == Len(offsets)

\* The squares of a board of size k, as (row, col).
Squares(k) == (0 .. k - 1) \X (0 .. k - 1)

\* Python list indexing: a negative index counts from the end.
PyIndex(k) == IF k < 0 THEN k + n ELSE k

InRange(k) == -n <= k /\ k < n

\* Board._is_valid
is_valid_no_visit_check(row, col) ==
    0 <= row /\ row < n /\ 0 <= col /\ col < n

is_valid_no_bounds_check(row, col) ==
    \/ ~(InRange(row) /\ InRange(col))
    \/ solution[<<PyIndex(row), PyIndex(col)>>] = UNVISITED

is_valid(row, col) ==
    /\ 0 <= row /\ row < n /\ 0 <= col /\ col < n
    /\ solution[<<row, col>>] = UNVISITED

\* The innermost frame and its locals.
Top == stack[Len(stack)]

next_row(f) == f.row + offsets[f.i][1]
next_col(f) == f.col + offsets[f.i][2]

SetTop(f) == [stack EXCEPT ![Len(stack)] = f]

Frame(row, col, move_count) ==
    [row |-> row, col |-> col, move_count |-> move_count, i |-> 1, pc |-> "entry"]

Running == mainpc = "solving" /\ stack # << >>

Init ==
    /\ n \in (-1 .. MaxN) \cup {DefaultN}
    /\ mainpc = "new"
    /\ exc = "none"
    /\ solution = << >>
    /\ move_path = << >>
    /\ visits = {}
    /\ position = <<0, 0>>
    /\ stack = << >>
    /\ retval = FALSE
    /\ outcomes = << >>

\* Board.__init__ (with Knight.__init__ before it): solution[0][0] = 0 on an
\* empty list raises IndexError.
Board_init ==
    /\ mainpc = "new"
    /\ IF n < 1
         THEN /\ mainpc' = "raised"
              /\ exc' = "IndexError"
              /\ UNCHANGED <<solution, move_path, visits, position>>
         ELSE /\ solution' = [s \in Squares(n) |-> IF s = <<0, 0>> THEN 0 ELSE UNVISITED]
              /\ move_path' = << <<0, 0>> >>
              /\ visits' = {<<0, 0>>}
              /\ position' = <<0, 0>>
              /\ mainpc' = "idle"
              /\ exc' = "none"
    /\ UNCHANGED <<n, stack, retval, outcomes>>

\* Board.solve, line 101: the call _solve_knight_tour(0, 0, 1).  The search
\* is explored on boards up to MaxN; a larger board is only constructed.
solve ==
    /\ mainpc = "idle"
    /\ n <= MaxN
    /\ Len(outcomes) < MaxCalls
    /\ mainpc' = "solving"
    /\ stack' = << Frame(0, 0, 1) >>
    /\ UNCHANGED <<n, exc, solution, move_path, visits, position, retval, outcomes>>

\* Board.solve, lines 101-105: the value of the outermost call is returned.
solve_return ==
    /\ mainpc = "solving"
    /\ stack = << >>
    /\ mainpc' = "idle"
    /\ outcomes' = Append(outcomes, [result |-> retval, grid |-> solution,
                                     path |-> move_path])
    /\ UNCHANGED <<n, exc, solution, move_path, visits, position, stack, retval>>

\* A return statement of _solve_knight_tour: the frame is popped.
Return(v) ==
    /\ stack' = SubSeq(stack, 1, Len(stack) - 1)
    /\ retval' = v

\* Lines 119-120: the base case.
base_case_off_by_one ==
    /\ Running
    /\ Top.pc = "entry"
    /\ IF Top.move_count = n * n + 1
         THEN Return(TRUE)
         ELSE /\ stack' = SetTop([Top EXCEPT !.pc = "for"])
              /\ UNCHANGED retval
    /\ UNCHANGED <<n, mainpc, exc, solution, move_path, visits, position, outcomes>>

base_case ==
    /\ Running
    /\ Top.pc = "entry"
    /\ IF Top.move_count = n * n
         THEN Return(TRUE)
         ELSE /\ stack' = SetTop([Top EXCEPT !.pc = "for"])
              /\ UNCHANGED retval
    /\ UNCHANGED <<n, mainpc, exc, solution, move_path, visits, position, outcomes>>

\* Lines 122-125: the next offset of the loop and the test of its square.
for_offset_skip ==
    /\ Running
    /\ Top.pc = "for"
    /\ Top.i <= NumOffsets
    /\ IF is_valid(next_row(Top), next_col(Top))
         THEN stack' = SetTop([Top EXCEPT !.pc = "mark_solution"])
         ELSE stack' = SetTop([Top EXCEPT !.i = @ + 2])
    /\ UNCHANGED <<n, mainpc, exc, solution, move_path, visits, position,
                   retval, outcomes>>

for_offset ==
    /\ Running
    /\ Top.pc = "for"
    /\ Top.i <= NumOffsets
    /\ IF is_valid(next_row(Top), next_col(Top))
         THEN stack' = SetTop([Top EXCEPT !.pc = "mark_solution"])
         ELSE stack' = SetTop([Top EXCEPT !.i = @ + 1])
    /\ UNCHANGED <<n, mainpc, exc, solution, move_path, visits, position,
                   retval, outcomes>>

\* Line 126: self.solution[next_row][next_col] = move_count
mark_solution ==
    /\ Running
    /\ Top.pc = "mark_solution"
    /\ IF InRange(next_row(Top)) /\ InRange(next_col(Top))
         THEN /\ solution' = [solution EXCEPT
                    ![<<PyIndex(next_row(Top)), PyIndex(next_col(Top))>>] =
                        Top.move_count]
              /\ stack' = SetTop([Top EXCEPT !.pc = "mark_position"])
              /\ UNCHANGED <<mainpc, exc>>
         ELSE /\ mainpc' = "raised"
              /\ exc' = "IndexError"
              /\ UNCHANGED <<solution, stack>>
    /\ UNCHANGED <<n, move_path, visits, position, retval, outcomes>>

\* Line 127: self.knight.position = (next_row, next_col)
mark_position ==
    /\ Running
    /\ Top.pc = "mark_position"
    /\ position' = <<next_row(Top), next_col(Top)>>
    /\ stack' = SetTop([Top EXCEPT !.pc = "mark_visits"])
    /\ UNCHANGED <<n, mainpc, exc, solution, move_path, visits, retval, outcomes>>

\* Line 128: self.visits.add((next_row, next_col))
mark_visits_swapped ==
    /\ Running
    /\ Top.pc = "mark_visits"
    /\ visits' = visits \cup {<<next_col(Top), next_row(Top)>>}
    /\ stack' = SetTop([Top EXCEPT !.pc = "call"])
    /\ UNCHANGED <<n, mainpc, exc, solution, move_path, position, retval, outcomes>>

mark_visits ==
    /\ Running
    /\ Top.pc = "mark_visits"
    /\ visits' = visits \cup {<<next_row(Top), next_col(Top)>>}
    /\ stack' = SetTop([Top EXCEPT !.pc = "call"])
    /\ UNCHANGED <<n, mainpc, exc, solution, move_path, position, retval, outcomes>>

\* Line 135: the recursive call (lines 130-133 only display the board).
recurse ==
    /\ Running
    /\ Top.pc = "call"
    /\ stack' = Append(SetTop([Top EXCEPT !.pc = "after"]),
                       Frame(next_row(Top), next_col(Top), Top.move_count + 1))
    /\ UNCHANGED <<n, mainpc, exc, solution, move_path, visits, position,
                   retval, outcomes>>

\* Lines 135-136: the recursive call has returned.
after_call_greedy ==
    /\ Running
    /\ Top.pc = "after"
    /\ Return(retval)
    /\ UNCHANGED <<n, mainpc, exc, solution, move_path, visits, position, outcomes>>

after_call_ignores_result ==
    /\ Running
    /\ Top.pc = "after"
    /\ stack' = SetTop([Top EXCEPT !.pc = "unmark_solution"])
    /\ UNCHANGED <<n, mainpc, exc, solution, move_path, visits, position,
                   retval, outcomes>>

after_call ==
    /\ Running
    /\ Top.pc = "after"
    /\ IF retval
         THEN Return(TRUE)
         ELSE /\ stack' = SetTop([Top EXCEPT !.pc = "unmark_solution"])
              /\ UNCHANGED retval
    /\ UNCHANGED <<n, mainpc, exc, solution, move_path, visits, position, outcomes>>

\* Line 138: self.solution[next_row][next_col] = -1
unmark_solution ==
    /\ Running
    /\ Top.pc = "unmark_solution"
    /\ solution' = [solution EXCEPT
          ![<<PyIndex(next_row(Top)), PyIndex(next_col(Top))>>] = UNVISITED]
    /\ stack' = SetTop([Top EXCEPT !.pc = "unmark_visits"])
    /\ UNCHANGED <<n, mainpc, exc, move_path, visits, position, retval, outcomes>>

\* Line 139: self.visits.remove((next_row, next_col)); set.remove raises
\* KeyError when the element is absent.
unmark_visits_no_advance ==
    /\ Running
    /\ Top.pc = "unmark_visits"
    /\ IF <<next_row(Top), next_col(Top)>> \in visits
         THEN /\ visits' = visits \ {<<next_row(Top), next_col(Top)>>}
              /\ stack' = SetTop([Top EXCEPT !.pc = "for"])
              /\ UNCHANGED <<mainpc, exc>>
         ELSE /\ mainpc' = "raised"
              /\ exc' = "KeyError"
              /\ UNCHANGED <<visits, stack>>
    /\ UNCHANGED <<n, solution, move_path, position, retval, outcomes>>

unmark_visits ==
    /\ Running
    /\ Top.pc = "unmark_visits"
    /\ IF <<next_row(Top), next_col(Top)>> \in visits
         THEN /\ visits' = visits \ {<<next_row(Top), next_col(Top)>>}
              /\ stack' = SetTop([Top EXCEPT !.pc = "for", !.i = @ + 1])
              /\ UNCHANGED <<mainpc, exc>>
         ELSE /\ mainpc' = "raised"
              /\ exc' = "KeyError"
              /\ UNCHANGED <<visits, stack>>
    /\ UNCHANGED <<n, solution, move_path, position, retval, outcomes>>

\* Line 141: the loop is exhausted.
return_false ==
    /\ Running
    /\ Top.pc = "for"
    /\ Top.i > NumOffsets
    /\ Return(FALSE)
    /\ UNCHANGED <<n, mainpc, exc, solution, move_path, visits, position, outcomes>>

Next ==
    \/ Board_init
    \/ solve
    \/ solve_return
    \/ base_case
    \/ for_offset
    \/ mark_solution
    \/ mark_position
    \/ mark_visits
    \/ recurse
    \/ after_call
    \/ unmark_solution
    \/ unmark_visits
    \/ return_false

Spec == Init /\ [][Next]_vars

\* The interpreter runs the single thread of the program whenever it has a
\* statement to execute.
FairSpec == Spec /\ WF_vars(Next)

(***************************************************************************)
(* Properties.                                                             *)
(***************************************************************************)

\* The outcome of the k-th call of solve() on the board.
Returned(k) == Len(outcomes) >= k
Found(k) == Returned(k) /\ outcomes[k].result

\* A knight move, stated geometrically: one coordinate changes by 1 and the
\* other by 2.
Abs(x) == IF x < 0 THEN -x ELSE x
KnightMove(s, t) == {Abs(s[1] - t[1]), Abs(s[2] - t[2])} = {1, 2}

\* The squares of a grid that hold index i.
Holding(grid, i) == {s \in DOMAIN grid : grid[s] = i}

\* C1: whenever solve() returns True on an n x n board, every index
\* 0..n*n-1 is held by exactly one square of the solution grid and no square
\* is left at -1.
C1_Permutation ==
    \A k \in 1 .. Len(outcomes) :
        outcomes[k].result =>
            /\ DOMAIN outcomes[k].grid = Squares(n)
            /\ \A i \in 0 .. n * n - 1 :
                   Cardinality(Holding(outcomes[k].grid, i)) = 1
            /\ \A s \in Squares(n) : outcomes[k].grid[s] # UNVISITED

C1_Witness == Found(1) /\ n = MaxN

\* C2: whenever solve() returns True, for every i in 0..n*n-2 the square
\* holding i+1 is one knight move away from the square holding i.
C2_KnightSteps ==
    \A k \in 1 .. Len(outcomes) :
        outcomes[k].result =>
            \A i \in 0 .. n * n - 2 :
                \E s \in Holding(outcomes[k].grid, i) :
                    \E t \in Holding(outcomes[k].grid, i + 1) :
                        KnightMove(s, t)

C2_Witness == Found(1) /\ n = MaxN /\ outcomes[1].grid[<<2, 1>>] = 1

\* Whether a path of knight moves from square s visits every square outside
\* the set seen exactly once.
RECURSIVE Extends(_, _)
Extends(s, seen) ==
    \/ seen = Squares(n)
    \/ \E t \in Squares(n) \ seen : KnightMove(s, t) /\ Extends(t, seen \cup {t})

TourExists == Extends(<<0, 0>>, {<<0, 0>>})

\* C3: the first solve() on a board returns True if and only if a
\* Hamiltonian knight path starting at (0,0) exists on the n x n board.
C3_Complete ==
    (mainpc = "idle" /\ Len(outcomes) = 1) => (outcomes[1].result <=> TourExists)

C3_WitnessFound == mainpc = "idle" /\ Len(outcomes) = 1 /\ n = MaxN /\ outcomes[1].result
C3_WitnessNotFound == mainpc = "idle" /\ Len(outcomes) = 1 /\ n = 4 /\ ~outcomes[1].result

\* C4: after solve() returns True on an n x n board, move_path is a sequence
\* of n*n squares whose element i is the square visited at move i.
C4_PathRecorded ==
    Found(1) =>
        /\ Len(outcomes[1].path) = n * n
        /\ \A i \in 0 .. n * n - 1 :
               /\ i + 1 <= Len(outcomes[1].path)
               /\ outcomes[1].grid[outcomes[1].path[i + 1]] = i

\* C5: for every board size n >= 5 the first solve() from the corner (0,0)
\* returns True, with move index n*n-1 assigned.
C5_FoundFromFive ==
    (n >= 5 /\ Returned(1)) =>
        /\ outcomes[1].result
        /\ Holding(outcomes[1].grid, n * n - 1) # {}

C5_Witness == n >= 5 /\ Returned(1)

\* C6: for n = 2, 3 and 4 solve() returns the ordinary value False, and no
\* exception is raised at any point of the search.
C6_NotFoundIsFalse ==
    n \in 2 .. 4 =>
        /\ mainpc # "raised"
        /\ exc = "none"
        /\ Returned(1) => outcomes[1].result = FALSE

C6_Witness == n = 3 /\ Returned(1) /\ ~outcomes[1].result /\ exc = "none"

\* C7: on a 1 x 1 board solve() returns True without making any move: the
\* only frame is the first call and it never leaves the base case test; the
\* grid holds 0 at (0,0) and the path is [(0,0)].
C7_TrivialBoard ==
    (n = 1 /\ mainpc # "new") =>
        /\ Len(stack) <= 1
        /\ \A d \in 1 .. Len(stack) : stack[d].pc = "entry" /\ stack[d].move_count = n * n
        /\ solution = [s \in {<<0, 0>>} |-> 0]
        /\ move_path = << <<0, 0>> >>
        /\ Returned(1) => outcomes[1].result

C7_Witness == n = 1 /\ Found(1) /\ outcomes[1].grid[<<0, 0>>] = 0

\* C8: a second solve() on the same board returns the same outcome and
\* leaves the same solution grid as the first.
C8_Idempotent ==
    Returned(2) =>
        /\ outcomes[2].result = outcomes[1].result
        /\ outcomes[2].grid = outcomes[1].grid

\* C9: a board size n < 1 is rejected by a dedicated argument check
\* (InvalidArgument) before any search step runs.
C9_InvalidArgument ==
    (n < 1 /\ mainpc # "new") =>
        /\ mainpc = "raised"
        /\ exc = "InvalidArgument"
        /\ stack = << >>
        /\ outcomes = << >>

\* Onward degree of a square: the number of offsets that lead from it to an
\* in-bounds unvisited square of the current board.
degree(row, col) ==
    Cardinality({j \in 1 .. NumOffsets :
                    is_valid(row + offsets[j][1], col + offsets[j][2])})

\* The offsets of a frame whose square is valid on the current board.
candidates(f) ==
    {j \in 1 .. NumOffsets : is_valid(f.row + offsets[j][1], f.col + offsets[j][2])}

cand_degree(f, j) == degree(f.row + offsets[j][1], f.col + offsets[j][2])

\* Candidate j is ranked before candidate k: smaller degree, ties to the
\* earlier offset.
RankedBefore(f, j, k) ==
    \/ cand_degree(f, j) < cand_degree(f, k)
    \/ cand_degree(f, j) = cand_degree(f, k) /\ j < k

\* C10: when a frame is about to mark a candidate, every other valid
\* candidate of lower rank (smaller onward degree, ties to the earlier
\* offset) has been tried before it, and only those.
C10_Warnsdorff ==
    (Running /\ Top.pc = "mark_solution") =>
        \A j \in candidates(Top) \ {Top.i} :
            (j < Top.i) <=> RankedBefore(Top, j, Top.i)

\* The eight displacements of a knight move.
KnightDeltas == {d \in (-2 .. 2) \X (-2 .. 2) : Abs(d[1]) * Abs(d[2]) = 2}

\* The squares of the board that hold a move index.
Marked == {s \in DOMAIN solution : solution[s] # UNVISITED}

\* The marked squares hold exactly 0..k, each once, index 0 on (0,0), and
\* the square holding i+1 is a knight move from the square holding i.
SinglePath ==
    LET marked == Marked
        k == Cardinality(marked) - 1
    IN  /\ \A s \in marked : solution[s] \in 0 .. k
        /\ Cardinality({solution[s] : s \in marked}) = Cardinality(marked)
        /\ <<0, 0>> \in marked /\ solution[<<0, 0>>] = 0
        /\ \A s \in marked :
               solution[s] > 0 =>
                   \E d \in KnightDeltas :
                       LET t == <<s[1] + d[1], s[2] + d[2]>> IN
                       /\ 0 <= t[1] /\ t[1] < n /\ 0 <= t[2] /\ t[2] < n
                       /\ solution[t] = solution[s] - 1

\* A frame at the entry of _solve_knight_tour(row, col, move_count) finds
\* move_count - 1 as the highest index, on (row, col).
EntryAgrees(f) ==
    f.pc = "entry" =>
        /\ Cardinality(Marked) - 1 = f.move_count - 1
        /\ <<f.row, f.col>> \in DOMAIN solution
        /\ solution[<<f.row, f.col>>] = f.move_count - 1

\* C11: in every reachable state the marked squares form one self-avoiding
\* knight path 0..k from (0,0); at entry to _solve_knight_tour(row, col,
\* move_count) k = move_count - 1 and (row, col) holds k; the recursion depth
\* never exceeds n*n.
C11_BoardInvariant ==
    mainpc \in {"idle", "solving"} =>
        /\ SinglePath
        /\ \A d \in 1 .. Len(stack) : EntryAgrees(stack[d])
        /\ Len(stack) <= n * n

\* The same during the first solve() on a constructed board (holds).
C11_FirstSolve ==
    (mainpc \in {"idle", "solving"} /\ outcomes = << >>) =>
        /\ SinglePath
        /\ \A d \in 1 .. Len(stack) : EntryAgrees(stack[d])
        /\ Len(stack) <= n * n

\* The path shape and the depth bound alone, in every state (holds).
C11_PathAndDepth ==
    mainpc \in {"idle", "solving"} => SinglePath /\ Len(stack) <= n * n

\* The highest move index on the board.
HighestIndex == Cardinality(Marked) - 1

\* C12: in every reachable state outside the marking statements, including
\* after a backtrack and when solve() has returned False, knight.position is
\* the square holding the highest assigned move index.
C12_CurrentSquare ==
    (/\ mainpc \in {"idle", "solving"}
     /\ stack # << >> => Top.pc \in {"entry", "for"}) =>
        /\ position \in DOMAIN solution
        /\ solution[position] = HighestIndex

\* The board as Board.__init__ leaves it.
FreshGrid == [s \in Squares(n) |-> IF s = <<0, 0>> THEN 0 ELSE UNVISITED]

\* C13: backtracking restores the board: when solve() has returned False only
\* (0,0) is marked, with index 0, and visits is {(0,0)}.
C13_Restored ==
    (/\ mainpc = "idle"
     /\ outcomes # << >>
     /\ ~outcomes[Len(outcomes)].result) =>
        /\ solution = FreshGrid
        /\ visits = {<<0, 0>>}

\* During the first solve(): between two candidates of a frame, and when the
\* frame returns False, exactly the indices below its move_count are on the
\* board, and a failed first solve() leaves the constructed board (holds).
C13_FirstSolveRestores ==
    /\ (Running /\ outcomes = << >> /\ Top.pc = "for") =>
           /\ Cardinality(Marked) = Top.move_count
           /\ visits = Marked
    /\ (mainpc = "idle" /\ Len(outcomes) = 1 /\ ~outcomes[1].result) =>
           solution = FreshGrid /\ visits = {<<0, 0>>}

\* A recursive call has returned True and the value is on its way up.
Succeeded ==
    /\ mainpc = "solving"
    /\ retval
    /\ stack = << >> \/ Top.pc = "after"

\* C14: once a recursive call has returned True, every enclosing call returns
\* True as its next step without trying another candidate, solve() returns
\* True, and no square of the solution grid changes then or afterwards.
C14_SuccessPropagates ==
    [][/\ Succeeded =>
            /\ solution' = solution
            /\ visits' = visits
            /\ IF stack = << >>
                 THEN /\ mainpc' = "idle"
                      /\ Len(outcomes') = Len(outcomes) + 1
                      /\ outcomes'[Len(outcomes')].result
                 ELSE /\ stack' = SubSeq(stack, 1, Len(stack) - 1)
                      /\ retval'
                      /\ mainpc' = "solving"
       /\ (\E k \in 1 .. Len(outcomes) : outcomes[k].result) =>
            solution' = solution]_vars

C14_Witness == Succeeded /\ Len(stack) = n * n - 2 /\ n = MaxN

\* The squares one knight move from (row, col) that are on the board and
\* unvisited, stated geometrically.
OnwardSquares(row, col) ==
    {s \in Squares(n) : KnightMove(<<row, col>>, s) /\ solution[s] = UNVISITED}

\* The squares the loop of a frame would accept on the current board.
candidate_squares(f) ==
    {<<f.row + offsets[j][1], f.col + offsets[j][2]>> : j \in candidates(f)}

\* C15: a move index is written only to a square that is in bounds and
\* unvisited; the candidates of a frame are exactly the in-bounds unvisited
\* squares one knight move away (2 from (0,0) and 8 from (3,3) on the
\* constructed 8 x 8 board).
C15_MarkOnlyUnvisited ==
    /\ (Running /\ Top.pc = "mark_solution") =>
           /\ <<next_row(Top), next_col(Top)>> \in Squares(n)
           /\ solution[<<next_row(Top), next_col(Top)>>] = UNVISITED
    /\ (Running /\ Top.pc = "for") =>
           /\ candidate_squares(Top) = OnwardSquares(Top.row, Top.col)
           /\ Cardinality(candidates(Top)) = Cardinality(candidate_squares(Top))
    /\ (n = DefaultN /\ mainpc = "idle") =>
           /\ Cardinality(candidates(Frame(0, 0, 1))) = 2
           /\ Cardinality(candidates(Frame(3, 3, 1))) = 8

C15_Witness ==
    /\ Running
    /\ Top.pc = "mark_solution"
    /\ Top.move_count = 3
    /\ solution[<<next_row(Top), next_col(Top)>>] = UNVISITED

C15_WitnessDefaultBoard ==
    n = DefaultN /\ mainpc = "idle" /\ Cardinality(candidates(Frame(3, 3, 1))) = 8

\* C16: within a frame the offsets are taken in list order, each once: the
\* offset index of a frame starts at 1 and moves on by exactly one, only in
\* the innermost frame, and only when the square of the current offset was
\* rejected or was marked, explored without success and unmarked; a square is
\* marked only for the offset the loop is at.
C16_OffsetOrder ==
    [][/\ \A d \in 1 .. Len(stack') :
            IF d <= Len(stack)
              THEN \/ stack'[d].i = stack[d].i
                   \/ /\ d = Len(stack)
                      /\ stack'[d].i = stack[d].i + 1
                      /\ \/ /\ stack[d].pc = "for"
                            /\ <<next_row(stack[d]), next_col(stack[d])>>
                                   \notin OnwardSquares(stack[d].row, stack[d].col)
                         \/ /\ stack[d].pc = "unmark_visits"
                            /\ ~retval
                            /\ solution[<<next_row(stack[d]), next_col(stack[d])>>]
                                   = UNVISITED
              ELSE stack'[d].i = 1
       /\ (Running /\ Top.pc = "unmark_visits" /\ mainpc' = "solving") =>
            /\ Len(stack') = Len(stack)
            /\ stack'[Len(stack')].i = Top.i + 1
       /\ (/\ Running /\ mainpc' = "solving" /\ Len(stack') = Len(stack)
           /\ stack'[Len(stack')].pc = "mark_solution") =>
            /\ Top.pc = "for"
            /\ stack'[Len(stack')].i = Top.i
            /\ Top.i \in 1 .. NumOffsets]_vars

C16_Witness ==
    /\ Running
    /\ Top.pc = "mark_solution"
    /\ \E j \in candidates(Top) : j < Top.i

\* C17: every solve() on a board of size n >= 1 returns; the depth of the
\* recursion stays within n*n and the offset index of a frame within the
\* eight offsets and the end of the loop.
C17_Terminates ==
    /\ [](/\ Len(stack) <= n * n
          /\ \A d \in 1 .. Len(stack) : stack[d].i \in 1 .. NumOffsets + 1)
    /\ (mainpc = "solving") ~> (mainpc = "idle")

C17_Witness ==
    /\ mainpc = "idle" /\ n = 4
    /\ Len(outcomes) = MaxCalls
    /\ ~outcomes[Len(outcomes)].result

\* C18: outside the statements of lines 126-128 and 138-139, visits is the
\* set of squares whose solution value is not -1.
C18_VisitsAgree ==
    (/\ mainpc \in {"idle", "solving"}
     /\ stack # << >> =>
            Top.pc \notin {"mark_position", "mark_visits", "unmark_visits"}) =>
        visits = Marked

C18_Witness ==
    /\ Running
    /\ Top.pc = "for" /\ Top.i > 1
    /\ Cardinality(visits) >= 3
    /\ visits = Marked

====
